---- MODULE Spec2Model ----
(***************************************************************************)
(* A model of truenums (src/src/core.ts): createTruenum and the lookup     *)
(* operations of the enumeration it returns, subsetTruenum, composeTruenum *)
(* and their merge helpers, compareTruenumKeys, assertExhaustive and       *)
(* buildZodSchema.  JavaScript values are tagged records, plain objects    *)
(* carry an identity and are maps                                          *)
(* of their own properties read through Object.prototype, and every error  *)
(* is the text the code throws.                                            *)
(***************************************************************************)
EXTENDS Integers, Sequences, FiniteSets

VARIABLES
    enums,    \* the enumerations the caller holds, oldest first
    last,     \* the most recent call: its operation, arguments and outcome
    builtins  \* the properties added to the built-in objects every plain
              \* object inherits from: the function Object and Object.prototype

vars == <<enums, last, builtins>>

(***************************************************************************)
(* Bounds and input universes                                              *)
(***************************************************************************)

\* Longest member list passed to createTruenum / subsetTruenum.
MaxMembers == 3

\* Longest list of sources passed to composeTruenum.
MaxSources == 2

\* Key strings: two ordinary ones, the empty string, and two names that
\* Object.prototype defines ("__proto__" is its accessor, "constructor" a
\* data property every plain object inherits).
KeyStrings == {"a", "b", "", "__proto__", "constructor"}

\* A string that is never configured as a key.
StrangerString == "zz"

\* Locale strings asked of getTranslation: inside the fixed set, outside
\* it, and a name plain objects inherit.
LangStrings == {"en", "fr", "xx", "constructor"}

RECURSIVE SeqsUpTo(_, _)
SeqsUpTo(S, n) ==
    IF n = 0 THEN {<<>>}
    ELSE LET shorter == SeqsUpTo(S, n - 1)
         IN  shorter \cup {Append(s, x) : s \in shorter, x \in S}

\* Every member list up to MaxMembers, duplicates and the empty list included.
MemberLists == SeqsUpTo(KeyStrings, MaxMembers)

(***************************************************************************)
(* JavaScript values                                                       *)
(***************************************************************************)

Undefined == [t |-> "undefined", v |-> ""]
Null      == [t |-> "null", v |-> ""]
Str(s)    == [t |-> "string", v |-> s]
Num(s)    == [t |-> "number", v |-> s]      \* v is the number's decimal text
Boxed(s)  == [t |-> "boxed", v |-> s]       \* new String(s)
Fn(n)     == [t |-> "function", v |-> n]    \* a built-in constructor function
Builtin(n) == [t |-> "object", v |-> n]     \* a built-in object
Bool(b)   == [t |-> "boolean", v |-> IF b THEN "true" ELSE "false"]

\* typeof x
typeof(x) ==
    CASE x.t \in {"null", "boxed", "object"} -> "object"
      [] OTHER -> x.t

\* String(x), as the template literals of the error texts apply it.
String(x) ==
    CASE x.t = "undefined" -> "undefined"
      [] x.t = "null"      -> "null"
      [] x.t = "function"  -> "function " \o x.v \o "() { [native code] }"
      [] x.t = "object"    -> "[object Object]"
      [] OTHER             -> x.v

\* ToPropertyKey(x) for the values used as property names.
ToPropertyKey(x) == String(x)

(***************************************************************************)
(* Plain objects: a map of own properties, prototype Object.prototype      *)
(***************************************************************************)

EmptyObject == <<>>

\* Object.hasOwn(o, k)
hasOwn(o, k) == k \in DOMAIN o

\* The built-in objects as the engine makes them: nothing added.
PristineBuiltins == [Object |-> EmptyObject, ObjectPrototype |-> EmptyObject]

\* p[k] read on Object.prototype itself.
GetOfObjectPrototype(k) ==
    IF k \in DOMAIN builtins.ObjectPrototype THEN builtins.ObjectPrototype[k]
    ELSE CASE k = "constructor" -> Fn("Object")
           [] k = "__proto__"   -> Null
           [] OTHER             -> Undefined

\* o[k] read on a plain object: own property first, then Object.prototype.
Get(o, k) ==
    IF k \in DOMAIN o THEN o[k]
    ELSE IF k = "__proto__" /\ k \notin DOMAIN builtins.ObjectPrototype
    THEN Builtin("Object.prototype")
    ELSE GetOfObjectPrototype(k)

\* f[k] read on a function object such as Object: its own properties, then
\* Function.prototype, then Object.prototype.
GetOfFunction(f, k) ==
    IF f.v = "Object" /\ k \in DOMAIN builtins.Object THEN builtins.Object[k]
    ELSE CASE k = "name"        -> Str(f.v)
           [] k = "constructor" -> Fn("Function")
           [] k = "__proto__"   -> Builtin("Function.prototype")
           [] OTHER             -> GetOfObjectPrototype(k)

\* o[k] = v on a plain object, for a primitive v.  Without an own
\* "__proto__" the assignment reaches the accessor of Object.prototype,
\* whose setter ignores a value that is neither an object nor null, so no
\* property is created.
Set(o, k, v) ==
    IF k = "__proto__" /\ k \notin DOMAIN o
    THEN o
    ELSE [x \in DOMAIN o \cup {k} |-> IF x = k THEN v ELSE o[x]]

\* The identity of an object allocated inside a call of the library.  The
\* objects the caller made and passed in have a name of their own.
Fresh == ""

\* An optional object-valued config field: absent, or the object: its own
\* properties, its identity, and for each own property the identity of the
\* object it holds where it holds one (the locale records of an i18n map).
NoObject == [def |-> FALSE, own |-> EmptyObject, id |-> Fresh, parts |-> EmptyObject]

\* An object built inside a call: {} and the records made for its keys.
Object(o) ==
    [def |-> TRUE, own |-> o, id |-> Fresh, parts |-> [k \in DOMAIN o |-> Fresh]]

\* An object the caller made, with the records the caller made for its keys.
Held(o, id) ==
    [def |-> TRUE, own |-> o, id |-> id, parts |-> [k \in DOMAIN o |-> id \o "." \o k]]

(***************************************************************************)
(* createTruenum                                                           *)
(***************************************************************************)

\* A TruenumConfig.  name is left out: no code reads it.
Config(members, labels, i18n) ==
    [members |-> members, labels |-> labels, i18n |-> i18n]

\* An array: its items, whether Object.freeze was applied to it, and which
\* array it is: the one the caller passed as config.members ("members") or
\* one allocated by the call ("copy").
Array(items, id, frozen) == [items |-> items, id |-> id, frozen |-> frozen]

\* [...members]: a new array with the same items.
spread(members) == Array(members, "copy", FALSE)

\* Object.freeze(arr)
freeze_not(arr) == arr

freeze(arr) == [arr EXCEPT !.frozen = TRUE]

\* z.enum(keys): the schema keeps the list of values it accepts.
zEnum(keys) == [typeName |-> "ZodEnum", values |-> keys.items]

\* The Truenum object: keys (its items, and the array they are held in),
\* values, the config its closures captured, and zodSchema.
Truenum(keys, values, config, zodSchema) ==
    [keys |-> keys.items, keysArray |-> [id |-> keys.id, frozen |-> keys.frozen],
     values |-> values, config |-> config, zodSchema |-> zodSchema]

NoTruenum ==
    Truenum(Array(<<>>, "copy", FALSE), EmptyObject, Config(<<>>, NoObject, NoObject),
            zEnum(Array(<<>>, "copy", FALSE)))

\* A call's outcome: a returned value or a thrown Error with its message.
Return(val) == [kind |-> "return", val |-> val, msg |-> ""]
Throw(msg)  == [kind |-> "throw", val |-> Undefined, msg |-> msg]

\* The outcome of a call that builds an enumeration.
Built(e)    == [kind |-> "return", enum |-> e, msg |-> ""]
Failed(msg) == [kind |-> "throw", enum |-> NoTruenum, msg |-> msg]

Range(s) == {s[i] : i \in DOMAIN s}

\* keys.join(', ')
RECURSIVE join(_, _)
join(keys, sep) ==
    IF keys = <<>> THEN ""
    ELSE IF Len(keys) = 1 THEN keys[1]
    ELSE keys[1] \o sep \o join(Tail(keys), sep)

\* new Set(config.members).size !== config.members.length
uniqueSetSizeDiffers_adjacentOnly(config) ==
    \E i \in 1..(Len(config.members) - 1) : config.members[i] = config.members[i + 1]

uniqueSetSizeDiffers(config) ==
    Cardinality(Range(config.members)) # Len(config.members)

\* config.members.length === 0
membersEmpty_never(config) == Len(config.members) < 0

membersEmpty(config) == Len(config.members) = 0

\* keys.reduce((acc, k) => { acc[k] = k; return acc; }, {})
RECURSIVE reduceValues(_, _)
reduceValues(keys, acc) ==
    IF keys = <<>> THEN acc
    ELSE reduceValues(Tail(keys), Set(acc, Head(keys), Str(Head(keys))))

createTruenum(config) ==
    IF uniqueSetSizeDiffers(config)
    THEN Failed("createTruenum: Duplicate keys found. All enum keys must be unique.")
    ELSE IF membersEmpty(config)
    THEN Failed("createTruenum: members[] cannot be empty")
    ELSE Built(Truenum(freeze(spread(config.members)),
                       reduceValues(config.members, EmptyObject),
                       config,
                       zEnum(freeze(spread(config.members)))))

(***************************************************************************)
(* The operations of a Truenum                                             *)
(***************************************************************************)

\* typeof input === 'string' && Object.hasOwn(values, input)
isEnumKey(e, input) ==
    typeof(input) = "string" /\ hasOwn(e.values, ToPropertyKey(input))

is(e, input) == Return(Bool(isEnumKey(e, input)))

\* errMsg ? ... : ... on an optional string
truthy(x) == x.t = "string" /\ x.v # ""

assert(e, input, errMsg) ==
    IF ~isEnumKey(e, input)
    THEN LET base == "Value \"" \o String(input) \o "\" is not a valid key of ["
                     \o join(e.keys, ", ") \o "]"
         IN  Throw(IF truthy(errMsg) THEN errMsg.v \o " " \o base ELSE base)
    ELSE Return(Undefined)

serialize(e, key) ==
    IF ~isEnumKey(e, key)
    THEN Throw("serialize() error: invalid key \"" \o String(key) \o "\"")
    ELSE Return(key)

deserialize(e, input) ==
    IF isEnumKey(e, input)
    THEN Return(input)
    ELSE Throw("deserialize() error: \"" \o String(input) \o "\" is invalid. Valid keys: ["
               \o join(e.keys, ", ") \o "]")

\* config.labels?.[key]
labelOf(config, key) ==
    IF ~config.labels.def THEN Undefined
    ELSE Get(config.labels.own, key)

getLabel(e, key) ==
    IF ~isEnumKey(e, key)
    THEN Throw("getLabel() error: invalid key \"" \o String(key) \o "\"")
    ELSE Return(labelOf(e.config, ToPropertyKey(key)))

\* config.i18n?.[key]?.[lang]
translationOf(config, key, lang) ==
    IF ~config.i18n.def THEN Undefined
    ELSE IF hasOwn(config.i18n.own, key) THEN Get(config.i18n.own[key], lang)
    ELSE LET inherited == Get(EmptyObject, key)
         IN  CASE inherited.t = "function" -> GetOfFunction(inherited, lang)
               [] inherited.t = "object"   -> GetOfObjectPrototype(lang)
               [] OTHER                    -> Undefined

getTranslation(e, key, lang) ==
    IF ~isEnumKey(e, key)
    THEN Throw("getTranslation() error: invalid key \"" \o String(key)
               \o "\" for lang \"" \o lang \o "\"")
    ELSE Return(translationOf(e.config, ToPropertyKey(key), lang))

(***************************************************************************)
(* subsetTruenum and its merge helpers                                     *)
(***************************************************************************)

SUPPORTED_LANGS == <<"en", "fr", "de", "es", "it", "ja", "ko", "zh">>

\* An intermediate result of a merge helper: the object built so far, or
\* the Error a call inside it threw.
Merged(o)       == [kind |-> "return", obj |-> o, msg |-> ""]
MergeFailed(msg) == [kind |-> "throw", obj |-> EmptyObject, msg |-> msg]

\* Object.assign(target, source) for plain objects: target[k] = source[k]
\* for every own key of source.
RECURSIVE assignKeys(_, _, _)
assignKeys(target, source, ks) ==
    IF ks = {} THEN target
    ELSE LET k == CHOOSE x \in ks : TRUE
         IN  assignKeys(Set(target, k, source[k]), source, ks \ {k})

ObjectAssign(target, source) == assignKeys(target, source, DOMAIN source)

\* The for loop of mergeLabels over subsetMembers.  storeLabel is the body
\* of the loop once parent.getLabel(k) has been called.
RECURSIVE copyParentLabels(_, _, _)
RECURSIVE storeLabel(_, _, _, _)
storeLabel_truthy(parent, subsetMembers, finalLabels, label) ==
    IF label.kind = "throw" THEN MergeFailed(label.msg)
    ELSE copyParentLabels(parent, Tail(subsetMembers),
             IF truthy(label.val)
             THEN Set(finalLabels, Head(subsetMembers), label.val)
             ELSE finalLabels)

storeLabel(parent, subsetMembers, finalLabels, label) ==
    IF label.kind = "throw" THEN MergeFailed(label.msg)
    ELSE copyParentLabels(parent, Tail(subsetMembers),
             IF label.val # Undefined
             THEN Set(finalLabels, Head(subsetMembers), label.val)
             ELSE finalLabels)

copyParentLabels(parent, subsetMembers, finalLabels) ==
    IF subsetMembers = <<>> THEN Merged(finalLabels)
    ELSE storeLabel(parent, subsetMembers, finalLabels,
                    getLabel(parent, Str(Head(subsetMembers))))

\* if (overrideLabels) Object.assign(finalLabels, overrideLabels), on the
\* outcome of the loop.
assignOverrideLabels(copied, overrideLabels) ==
    IF copied.kind = "throw" THEN copied
    ELSE IF overrideLabels.def
    THEN Merged(ObjectAssign(copied.obj, overrideLabels.own))
    ELSE copied

mergeLabels(parent, subsetMembers, overrideLabels) ==
    assignOverrideLabels(copyParentLabels(parent, subsetMembers, EmptyObject),
                         overrideLabels)

\* mergeTranslations(parent, key, target, langs): the loop over langs.
\* storeTranslation is the body of the loop once parent.getTranslation(key,
\* lang) has been called.
RECURSIVE mergeTranslations(_, _, _, _)
RECURSIVE storeTranslation(_, _, _, _, _)
storeTranslation(parent, key, target, langs, translation) ==
    IF translation.kind = "throw" THEN MergeFailed(translation.msg)
    ELSE mergeTranslations(parent, key,
             IF translation.val # Undefined
             THEN Set(target, Head(langs), translation.val)
             ELSE target,
             Tail(langs))

mergeTranslations(parent, key, target, langs) ==
    IF langs = <<>> THEN Merged(target)
    ELSE storeTranslation(parent, key, target, langs,
                          getTranslation(parent, Str(key), Head(langs)))

\* Object.fromEntries(subsetMembers.map((k) => [k, {}])): every entry is
\* defined as an own property, whatever its name.
initializeI18nMap(subsetMembers) ==
    [k \in Range(subsetMembers) |-> EmptyObject]

\* The first for loop of mergeI18n.  storeMerged keeps what
\* mergeTranslations left in finalI18n[k].
RECURSIVE copyParentI18n(_, _, _)
RECURSIVE storeMerged(_, _, _, _)
storeMerged(parent, subsetMembers, finalI18n, merged) ==
    IF merged.kind = "throw" THEN merged
    ELSE copyParentI18n(parent, Tail(subsetMembers),
             [finalI18n EXCEPT ![Head(subsetMembers)] = merged.obj])

copyParentI18n(parent, subsetMembers, finalI18n) ==
    IF subsetMembers = <<>> THEN Merged(finalI18n)
    ELSE storeMerged(parent, subsetMembers, finalI18n,
                     mergeTranslations(parent, Head(subsetMembers),
                                       finalI18n[Head(subsetMembers)], SUPPORTED_LANGS))

\* The outcome of a loop that Object.assigns override translations: the map
\* built, or the Error thrown, and the built-in objects as the loop left them.
Assigned(o, b)       == [kind |-> "return", obj |-> o, msg |-> "", builtins |-> b]
AssignFailed(msg, b) == [kind |-> "throw", obj |-> EmptyObject, msg |-> msg, builtins |-> b]

\* Object.assign(target, translations) when target is not a record of the
\* map but what Object.prototype has under the key's name: under
\* "constructor" the function Object, under "__proto__" Object.prototype
\* itself.  The translations become properties of that built-in object.
assignToInherited(target, translations, b) ==
    CASE target = Fn("Object") ->
             [b EXCEPT !.Object = ObjectAssign(@, translations)]
      [] target = Builtin("Object.prototype") ->
             [b EXCEPT !.ObjectPrototype = ObjectAssign(@, translations)]
      [] OTHER -> b

\* Some key of the set ks: the entry the loop takes next.
nextEntry(ks) == CHOOSE x \in ks : TRUE

\* The loop over Object.entries(overrideI18n): Object.assign(finalI18n[k],
\* translations).  finalI18n[k] is read through the prototype chain: for a
\* key that finalI18n does not own it is undefined, and Object.assign throws
\* a TypeError, unless Object.prototype defines the name; then the
\* translations are written onto that built-in and finalI18n is unchanged.
\* The overrides passed in hold at most one key that finalI18n does not own,
\* so the order of the entries does not matter.
RECURSIVE assignI18nOverrides(_, _, _, _)
assignI18nOverrides(finalI18n, overrideI18n, ks, b) ==
    IF ks = {} THEN Assigned(finalI18n, b)
    ELSE IF hasOwn(finalI18n, nextEntry(ks))
    THEN assignI18nOverrides(
             [finalI18n EXCEPT ![nextEntry(ks)] =
                  ObjectAssign(finalI18n[nextEntry(ks)], overrideI18n[nextEntry(ks)])],
             overrideI18n, ks \ {nextEntry(ks)}, b)
    ELSE IF Get(EmptyObject, nextEntry(ks)) = Undefined
    THEN AssignFailed("TypeError: Cannot convert undefined or null to object", b)
    ELSE assignI18nOverrides(finalI18n, overrideI18n, ks \ {nextEntry(ks)},
             assignToInherited(Get(EmptyObject, nextEntry(ks)),
                               overrideI18n[nextEntry(ks)], b))

\* if (overrideI18n) { ... }, on the outcome of the first loop of mergeI18n.
assignOverrideI18n(copied, overrideI18n) ==
    IF copied.kind = "throw" THEN AssignFailed(copied.msg, builtins)
    ELSE IF overrideI18n.def
    THEN assignI18nOverrides(copied.obj, overrideI18n.own, DOMAIN overrideI18n.own,
                             builtins)
    ELSE Assigned(copied.obj, builtins)

mergeI18n(parent, subsetMembers, overrideI18n) ==
    assignOverrideI18n(
        copyParentI18n(parent, subsetMembers, initializeI18nMap(subsetMembers)),
        overrideI18n)

\* The validation loop of subsetTruenum: the index of the first entry that
\* parent.is rejects, 0 when there is none.
RECURSIVE firstRejected(_, _, _)
firstRejected(parent, subsetMembers, i) ==
    IF i > Len(subsetMembers) THEN 0
    ELSE IF ~isEnumKey(parent, Str(subsetMembers[i])) THEN i
    ELSE firstRejected(parent, subsetMembers, i + 1)

\* opts: the optional label and i18n overrides (name is not read).
Opts(labels, i18n) == [labels |-> labels, i18n |-> i18n]

\* The outcome of a derivation: what createTruenum returned or the Error
\* thrown on the way, and the built-in objects as the call left them.
Derived(out, b) ==
    [kind |-> out.kind, enum |-> out.enum, msg |-> out.msg, builtins |-> b]

\* The end of subsetTruenum and of composeTruenum: createTruenum({ members,
\* labels: mergedLabels, i18n: mergedI18n }), unless a merge threw.
createMerged(members, mergedLabels, mergedI18n) ==
    IF mergedLabels.kind = "throw"
    THEN Derived(Failed(mergedLabels.msg), builtins)
    ELSE IF mergedI18n.kind = "throw"
    THEN Derived(Failed(mergedI18n.msg), mergedI18n.builtins)
    ELSE Derived(createTruenum(Config(members, Object(mergedLabels.obj),
                                      Object(mergedI18n.obj))),
                 mergedI18n.builtins)

subsetTruenum_sharesParentTables(parent, subsetMembers, opts) ==
    IF firstRejected(parent, subsetMembers, 1) # 0
    THEN Derived(Failed("subsetTruenum: key \""
                        \o subsetMembers[firstRejected(parent, subsetMembers, 1)]
                        \o "\" is not a member of parent."), builtins)
    ELSE Derived(createTruenum(Config(subsetMembers, parent.config.labels,
                                      parent.config.i18n)),
                 builtins)

subsetTruenum(parent, subsetMembers, opts) ==
    IF firstRejected(parent, subsetMembers, 1) # 0
    THEN Derived(Failed("subsetTruenum: key \""
                        \o subsetMembers[firstRejected(parent, subsetMembers, 1)]
                        \o "\" is not a member of parent."), builtins)
    ELSE createMerged(subsetMembers,
                      mergeLabels(parent, subsetMembers, opts.labels),
                      mergeI18n(parent, subsetMembers, opts.i18n))

(***************************************************************************)
(* composeTruenum and its merge helpers                                    *)
(***************************************************************************)

\* tList.flatMap((t) => [...t.keys])
RECURSIVE gatherAllKeys_lastFirst(_)
gatherAllKeys_lastFirst(tList) ==
    IF tList = <<>> THEN <<>>
    ELSE gatherAllKeys_lastFirst(Tail(tList)) \o Head(tList).keys

RECURSIVE gatherAllKeys(_)
gatherAllKeys(tList) ==
    IF tList = <<>> THEN <<>>
    ELSE Head(tList).keys \o gatherAllKeys(Tail(tList))

\* [...new Set(allKeys)]: the first occurrence of every key, in order.
RECURSIVE spreadSet(_, _)
spreadSet(allKeys, seen) ==
    IF allKeys = <<>> THEN <<>>
    ELSE IF Head(allKeys) \in seen THEN spreadSet(Tail(allKeys), seen)
    ELSE <<Head(allKeys)>> \o spreadSet(Tail(allKeys), seen \cup {Head(allKeys)})

\* The inner loop of mergeAllLabels: for (const k of t.keys).  storeLabelOf
\* is the body of the loop once t.getLabel(k) has been called.
RECURSIVE copyLabelsOf(_, _, _)
RECURSIVE storeLabelOf(_, _, _, _)
storeLabelOf(t, ks, mergedLabels, label) ==
    IF label.kind = "throw" THEN MergeFailed(label.msg)
    ELSE copyLabelsOf(t, Tail(ks),
             IF label.val # Undefined THEN Set(mergedLabels, Head(ks), label.val)
             ELSE mergedLabels)

copyLabelsOf(t, ks, mergedLabels) ==
    IF ks = <<>> THEN Merged(mergedLabels)
    ELSE storeLabelOf(t, ks, mergedLabels, getLabel(t, Str(Head(ks))))

\* The outer loop of mergeAllLabels: for (const t of truenums).
RECURSIVE copyAllLabels(_, _)
RECURSIVE nextLabels(_, _)
nextLabels(truenums, copied) ==
    IF copied.kind = "throw" THEN copied
    ELSE copyAllLabels(Tail(truenums), copied.obj)

copyAllLabels(truenums, mergedLabels) ==
    IF truenums = <<>> THEN Merged(mergedLabels)
    ELSE nextLabels(truenums,
                    copyLabelsOf(Head(truenums), Head(truenums).keys, mergedLabels))

mergeAllLabels(truenums, overrides) ==
    assignOverrideLabels(copyAllLabels(truenums, EmptyObject), overrides)

\* The inner loop of mergeAllI18n: mergeTranslations(t, k, mergedI18n[k],
\* SUPPORTED_LANGS) for every key of t.  mergedI18n owns every key of every
\* source, so the target is always the record initializeI18nMap made.
RECURSIVE copyI18nOf(_, _, _)
RECURSIVE storeMergedOf(_, _, _, _)
storeMergedOf(t, ks, mergedI18n, merged) ==
    IF merged.kind = "throw" THEN merged
    ELSE copyI18nOf(t, Tail(ks), [mergedI18n EXCEPT ![Head(ks)] = merged.obj])

copyI18nOf(t, ks, mergedI18n) ==
    IF ks = <<>> THEN Merged(mergedI18n)
    ELSE storeMergedOf(t, ks, mergedI18n,
                       mergeTranslations(t, Head(ks), mergedI18n[Head(ks)], SUPPORTED_LANGS))

\* The outer loop of mergeAllI18n: for (const t of truenums).
RECURSIVE copyAllI18n(_, _)
RECURSIVE nextI18n(_, _)
nextI18n(truenums, copied) ==
    IF copied.kind = "throw" THEN copied
    ELSE copyAllI18n(Tail(truenums), copied.obj)

copyAllI18n(truenums, mergedI18n) ==
    IF truenums = <<>> THEN Merged(mergedI18n)
    ELSE nextI18n(truenums,
                  copyI18nOf(Head(truenums), Head(truenums).keys, mergedI18n))

\* The loop of applyI18nOverrides over Object.entries(overrideI18n):
\* Object.assign(finalI18n[k], translations), with finalI18n[k] read through
\* the prototype chain as in mergeI18n.
RECURSIVE assignEntries(_, _, _, _)
assignEntries(finalI18n, overrideI18n, ks, b) ==
    IF ks = {} THEN Assigned(finalI18n, b)
    ELSE IF hasOwn(finalI18n, nextEntry(ks))
    THEN assignEntries(
             [finalI18n EXCEPT ![nextEntry(ks)] =
                  ObjectAssign(finalI18n[nextEntry(ks)], overrideI18n[nextEntry(ks)])],
             overrideI18n, ks \ {nextEntry(ks)}, b)
    ELSE IF Get(EmptyObject, nextEntry(ks)) = Undefined
    THEN AssignFailed("TypeError: Cannot convert undefined or null to object", b)
    ELSE assignEntries(finalI18n, overrideI18n, ks \ {nextEntry(ks)},
             assignToInherited(Get(EmptyObject, nextEntry(ks)),
                               overrideI18n[nextEntry(ks)], b))

\* applyI18nOverrides(mergedI18n, overrides), on the outcome of the loops of
\* mergeAllI18n.
applyI18nOverrides(copied, overrideI18n) ==
    IF copied.kind = "throw" THEN AssignFailed(copied.msg, builtins)
    ELSE IF ~overrideI18n.def THEN Assigned(copied.obj, builtins)
    ELSE assignEntries(copied.obj, overrideI18n.own, DOMAIN overrideI18n.own, builtins)

mergeAllI18n(truenums, allUniqueKeys, overrides) ==
    applyI18nOverrides(copyAllI18n(truenums, initializeI18nMap(allUniqueKeys)), overrides)

\* truenums.length === 0
truenumsEmpty_never(truenums) == Len(truenums) < 0

truenumsEmpty(truenums) == Len(truenums) = 0

\* deduplicate.size !== allKeys.length
deduplicateSizeDiffers_firstKeyOnly(allKeys) ==
    \E i \in 2..Len(allKeys) : allKeys[i] = allKeys[1]

deduplicateSizeDiffers(allKeys) == Cardinality(Range(allKeys)) # Len(allKeys)

composeTruenum(truenums, opts) ==
    IF truenumsEmpty(truenums)
    THEN Derived(Failed("composeTruenum: cannot compose empty array of truenums"), builtins)
    ELSE IF deduplicateSizeDiffers(gatherAllKeys(truenums))
    THEN Derived(Failed("composeTruenum: Duplicate keys found among the truenums"), builtins)
    ELSE createMerged(spreadSet(gatherAllKeys(truenums), {}),
                      mergeAllLabels(truenums, opts.labels),
                      mergeAllI18n(truenums, spreadSet(gatherAllKeys(truenums), {}),
                                   opts.i18n))

(***************************************************************************)
(* compareTruenumKeys                                                      *)
(***************************************************************************)

\* Longest string passed to compareTruenumKeys, in UTF-16 code units.
MaxUnits == 2

\* The code units the compared strings are made of.
CodeUnits == {0, 1, 2}

\* The strings compared, as sequences of code units: the empty string,
\* strings that are prefixes of others, strings that differ in one unit.
UnitStrings == UNION {[1..n -> CodeUnits] : n \in 0..MaxUnits}

\* a < b on two strings: false when b is a prefix of a, true when a is a
\* proper prefix of b, otherwise decided by the code units at the first
\* position where the two differ.
IsLessThan_shorterFirst(px, py) ==
    \/ Len(px) < Len(py)
    \/ /\ Len(px) = Len(py)
       /\ \E k \in DOMAIN px :
              /\ px[k] < py[k]
              /\ \A j \in 1..(k - 1) : px[j] = py[j]

RECURSIVE IsLessThan(_, _)
IsLessThan(px, py) ==
    IF py = <<>> THEN FALSE
    ELSE IF px = <<>> THEN TRUE
    ELSE IF Head(px) # Head(py) THEN Head(px) < Head(py)
    ELSE IsLessThan(Tail(px), Tail(py))

compareTruenumKeys(a, b) ==
    IF IsLessThan(a, b) THEN -1
    ELSE IF IsLessThan(b, a) THEN 1
    ELSE 0

(***************************************************************************)
(* assertExhaustive                                                        *)
(***************************************************************************)

\* throw new Error(msg || `Non-exhaustive switch reached: ${String(x)}`)
assertExhaustive(x, msg) ==
    Throw(IF truthy(msg) THEN msg.v
          ELSE "Non-exhaustive switch reached: " \o String(x))

(***************************************************************************)
(* The validator: buildZodSchema and the schema z.enum made                *)
(***************************************************************************)

buildZodSchema(truenum) == truenum.zodSchema

\* schema.default(d): a schema that puts d in the place of an absent input.
default(schema, d) ==
    [typeName |-> "ZodDefault", innerType |-> schema, defaultValue |-> d]

\* The input the schema made by z.enum gets to see.
parsedInput(schema, input) ==
    IF schema.typeName = "ZodDefault" /\ input = Undefined THEN schema.defaultValue
    ELSE input

\* The values of the schema made by z.enum.
enumValues(schema) ==
    IF schema.typeName = "ZodDefault" THEN schema.innerType.values ELSE schema.values

\* schema.parse(input): the input is returned when it is a string and one
\* of the values of the enum schema, a ZodError is thrown otherwise.
parse(schema, input) ==
    IF /\ typeof(parsedInput(schema, input)) = "string"
       /\ parsedInput(schema, input).v \in Range(enumValues(schema))
    THEN Return(parsedInput(schema, input))
    ELSE Throw("ZodError")

(***************************************************************************)
(* Inputs                                                                  *)
(***************************************************************************)

\* Own-key sets of the label and i18n objects a config supplies.
MetaKeySets == {{}, {"a", "constructor"}, {"", "a"}}

LabelObject(S, tag) == Held([k \in S |-> Str(tag \o k)], tag \o "labels")

LocaleObject(k, tag, langs) == [l \in langs |-> Str(tag \o l \o ":" \o k)]

I18nObject(S, tag, langs) ==
    Held([k \in S |-> LocaleObject(k, tag, langs)], tag \o "i18n")

\* Label and translation tables whose every value is the empty string.
EmptyLabels(S) == Held([k \in S |-> Str("")], "E:labels")

EmptyI18n(S, langs) == Held([k \in S |-> [l \in langs |-> Str("")]], "E:i18n")

LabelInputs == {NoObject} \cup {LabelObject(S, "L:") : S \in MetaKeySets}

\* A configured key has two locales of the fixed set and two outside it, one
\* of them a name plain objects inherit.
ConfiguredLangs == {"en", "fr", "xx", "constructor"}

I18nInputs == {NoObject} \cup {I18nObject(S, "T:", ConfiguredLangs) : S \in MetaKeySets}

ConfigInputs ==
    {Config(m, l, t) : m \in MemberLists, l \in LabelInputs, t \in I18nInputs}

\* Values passed to the lookup operations: every key string, a string that
\* is no key, and values that are not strings.
Inputs ==
    {Str(k) : k \in KeyStrings \cup {StrangerString}}
        \cup {Num("1"), Undefined, Boxed("a")}

\* The parents of subsetTruenum: enumerations createTruenum built.
ParentMemberLists ==
    {<<"a", "b">>, <<"b", "__proto__", "a">>, <<"constructor", "a">>, <<"", "a">>}

SubsetParents ==
    {createTruenum(Config(m, l, t)).enum :
        m \in ParentMemberLists, l \in LabelInputs, t \in I18nInputs}

\* The chosen lists: any strings, keys of the parent or not, repeated or not.
ChosenLists == SeqsUpTo(KeyStrings \cup {StrangerString}, MaxMembers)

\* The overrides: none, or a label and two locales for the key "a"; and
\* translation overrides whose only key is a name every plain object
\* inherits (an own "__proto__" entry is what JSON.parse makes of that name).
\* The last override gives the key "a" the empty string as its label and as
\* its translation for "en".
OptsInputs ==
    {Opts(l, t) : l \in {NoObject, LabelObject({"a"}, "O:")},
                  t \in {NoObject, I18nObject({"a"}, "O:", {"fr", "xx"})}}
        \cup {Opts(NoObject, I18nObject({k}, "O:", {"de"})) : k \in {"constructor", "__proto__"}}
        \cup {Opts(EmptyLabels({"a"}), EmptyI18n({"a"}, {"en"}))}

\* The sources of composeTruenum: enumerations createTruenum built, without
\* labels and translations or with those of one of two origins.
ComposeMemberLists == {<<"a">>, <<"b", "">>, <<"constructor", "a">>, <<"__proto__">>}

SourceMeta ==
    {<<NoObject, NoObject>>,
     <<LabelObject({"a", "constructor"}, "L:"),
       I18nObject({"a", "constructor"}, "T:", ConfiguredLangs)>>,
     <<LabelObject({"", "a", "b"}, "M:"),
       I18nObject({"", "a", "b"}, "U:", {"en", "xx"})>>}

ComposeSources ==
    {createTruenum(Config(m, x[1], x[2])).enum : m \in ComposeMemberLists, x \in SourceMeta}

\* Every list of sources up to MaxSources: the empty list, one source, the
\* same source twice, overlapping and disjoint sources.
SourceLists == UNION {[1..n -> ComposeSources] : n \in 0..MaxSources}

\* Sources with empty strings: every label and translation of the source is
\* the empty string, or none is.
EmptyStringMeta ==
    {<<EmptyLabels({"", "a", "b", "constructor"}),
       EmptyI18n({"", "a", "b", "constructor"}, {"en", "xx"})>>,
     <<LabelObject({"a", "constructor"}, "L:"),
       I18nObject({"a", "constructor"}, "T:", ConfiguredLangs)>>}

EmptyStringSources ==
    {createTruenum(Config(m, x[1], x[2])).enum : m \in ComposeMemberLists, x \in EmptyStringMeta}

EmptyStringSourceLists == UNION {[1..n -> EmptyStringSources] : n \in 0..MaxSources}

\* The optional errMsg of assert.
ErrMsgs == {Undefined, Str(""), Str("Bad input.")}

(***************************************************************************)
(* The state machine                                                       *)
(***************************************************************************)

NoConfig == Config(<<>>, NoObject, NoObject)

\* A record of one call.  self is the index in enums of the enumeration the
\* call was made on (0 for createTruenum); config is the config, or the
\* chosen members and overrides, of a call that builds an enumeration.
Call(op, self, input, lang, errMsg, config, kind, val, msg) ==
    [op |-> op, self |-> self, input |-> input, lang |-> lang, errMsg |-> errMsg,
     config |-> config, kind |-> kind, val |-> val, msg |-> msg]

Lookup(op, self, input, lang, errMsg, out) ==
    Call(op, self, input, lang, errMsg, NoConfig, out.kind, out.val, out.msg)

\* The operations that only read an enumeration.  They leave enums as it
\* is, so a lookup made right after another reaches no state that the
\* lookup made alone does not reach: one is modelled per construction.
LookupOps == {"is", "assert", "serialize", "deserialize", "getLabel", "getTranslation"}

Init ==
    /\ builtins = PristineBuiltins
    /\ enums = <<>>
    /\ last = Call("none", 0, Undefined, "", Undefined, NoConfig, "none", Undefined, "")

\* createTruenum(config), the first call of a session.
CallCreateTruenum ==
    /\ enums = <<>>
    /\ last.op = "none"
    /\ \E config \in ConfigInputs :
           LET out == createTruenum(config)
           IN  /\ enums' = IF out.kind = "return" THEN <<out.enum>> ELSE enums
               /\ UNCHANGED builtins
               /\ last' = Call("createTruenum", 0, Undefined, "", Undefined, config,
                               out.kind, Undefined, out.msg)

CallIs ==
    /\ last.op \notin LookupOps
    /\ \E i \in DOMAIN enums, input \in Inputs :
           /\ last' = Lookup("is", i, input, "", Undefined, is(enums[i], input))
           /\ UNCHANGED <<enums, builtins>>

CallAssert ==
    /\ last.op \notin LookupOps
    /\ \E i \in DOMAIN enums, input \in Inputs, errMsg \in ErrMsgs :
           /\ last' = Lookup("assert", i, input, "", errMsg, assert(enums[i], input, errMsg))
           /\ UNCHANGED <<enums, builtins>>

CallSerialize ==
    /\ last.op \notin LookupOps
    /\ \E i \in DOMAIN enums, key \in Inputs :
           /\ last' = Lookup("serialize", i, key, "", Undefined, serialize(enums[i], key))
           /\ UNCHANGED <<enums, builtins>>

CallDeserialize ==
    /\ last.op \notin LookupOps
    /\ \E i \in DOMAIN enums, input \in Inputs :
           /\ last' = Lookup("deserialize", i, input, "", Undefined, deserialize(enums[i], input))
           /\ UNCHANGED <<enums, builtins>>

CallGetLabel ==
    /\ last.op \notin LookupOps
    /\ \E i \in DOMAIN enums, key \in Inputs :
           /\ last' = Lookup("getLabel", i, key, "", Undefined, getLabel(enums[i], key))
           /\ UNCHANGED <<enums, builtins>>

CallGetTranslation ==
    /\ last.op \notin LookupOps
    /\ \E i \in DOMAIN enums, key \in Inputs, lang \in LangStrings :
           /\ last' = Lookup("getTranslation", i, key, lang, Undefined,
                             getTranslation(enums[i], key, lang))
           /\ UNCHANGED <<enums, builtins>>

Next ==
    \/ CallCreateTruenum
    \/ CallIs
    \/ CallAssert
    \/ CallSerialize
    \/ CallDeserialize
    \/ CallGetLabel
    \/ CallGetTranslation

Spec == Init /\ [][Next]_vars

\* The step a derivation makes: the caller keeps the enumeration returned
\* beside the ones it holds, the built-in objects are left as the call wrote
\* them, and the call is recorded with its arguments and outcome.
Derive(op, self, config, out) ==
    /\ enums' = IF out.kind = "return" THEN Append(enums, out.enum) ELSE enums
    /\ builtins' = out.builtins
    /\ last' = Call(op, self, Undefined, "", Undefined, config,
                    out.kind, Undefined, out.msg)

(***************************************************************************)
(* Derivation: a parent enumeration, one subsetTruenum call, then a lookup *)
(***************************************************************************)

InitSubset ==
    /\ builtins = PristineBuiltins
    /\ enums \in {<<parent>> : parent \in SubsetParents}
    /\ last = Call("none", 0, Undefined, "", Undefined, NoConfig, "none", Undefined, "")

\* subsetTruenum(enums[1], chosen, opts); the result is kept beside the parent.
CallSubsetTruenum ==
    /\ Len(enums) = 1
    /\ last.op = "none"
    /\ \E chosen \in ChosenLists, opts \in OptsInputs :
           Derive("subsetTruenum", 1, Config(chosen, opts.labels, opts.i18n),
                  subsetTruenum(enums[1], chosen, opts))

NextSubset ==
    \/ CallSubsetTruenum
    \/ CallGetLabel
    \/ CallGetTranslation

SpecSubset == InitSubset /\ [][NextSubset]_vars

(***************************************************************************)
(* Composition: a list of sources, one composeTruenum call, then a lookup  *)
(***************************************************************************)

InitCompose ==
    /\ builtins = PristineBuiltins
    /\ enums \in SourceLists
    /\ last = Call("none", 0, Undefined, "", Undefined, NoConfig, "none", Undefined, "")

\* composeTruenum(enums, opts); the result is kept after the sources.  The
\* call is recorded with the gathered keys of the sources and the overrides.
CallComposeTruenum ==
    /\ last.op = "none"
    /\ \E opts \in OptsInputs :
           Derive("composeTruenum", 0, Config(gatherAllKeys(enums), opts.labels, opts.i18n),
                  composeTruenum(enums, opts))

NextCompose ==
    \/ CallComposeTruenum
    \/ CallIs
    \/ CallGetLabel
    \/ CallGetTranslation

SpecCompose == InitCompose /\ [][NextCompose]_vars

(***************************************************************************)
(* Derivation of either kind from a list of sources: subsetTruenum of a    *)
(* single one or composeTruenum of the list, then a lookup                 *)
(***************************************************************************)

InitDerive ==
    /\ builtins = PristineBuiltins
    /\ enums \in SourceLists
    /\ last = Call("none", 0, Undefined, "", Undefined, NoConfig, "none", Undefined, "")

NextDerive ==
    \/ CallSubsetTruenum
    \/ CallComposeTruenum
    \/ CallGetLabel
    \/ CallGetTranslation

SpecDerive == InitDerive /\ [][NextDerive]_vars

(***************************************************************************)
(* Derivation from sources whose labels and translations are empty strings *)
(***************************************************************************)

InitEmptyString ==
    /\ builtins = PristineBuiltins
    /\ enums \in EmptyStringSourceLists
    /\ last = Call("none", 0, Undefined, "", Undefined, NoConfig, "none", Undefined, "")

SpecEmptyString == InitEmptyString /\ [][NextDerive]_vars

(***************************************************************************)
(* Comparison: three strings, compared pairwise by compareTruenumKeys      *)
(***************************************************************************)

\* The caller holds three strings a, b, c (last.input) and has compared
\* nothing yet.
InitCompare ==
    /\ builtins = PristineBuiltins
    /\ enums = <<>>
    /\ \E a \in UnitStrings, b \in UnitStrings, c \in UnitStrings :
           last = Call("none", 0, <<a, b, c>>, "", Undefined, NoConfig, "none", Undefined, "")

\* The results of the calls compareTruenumKeys(x, y) on the strings held.
Compared(a, b, c) ==
    [aa |-> compareTruenumKeys(a, a),
     ab |-> compareTruenumKeys(a, b),
     ba |-> compareTruenumKeys(b, a),
     bc |-> compareTruenumKeys(b, c),
     ac |-> compareTruenumKeys(a, c)]

CallCompareTruenumKeys ==
    /\ last.op = "none"
    /\ last' = [last EXCEPT !.op = "compareTruenumKeys", !.kind = "return",
                            !.val = Compared(last.input[1], last.input[2], last.input[3])]
    /\ UNCHANGED <<enums, builtins>>

NextCompare == CallCompareTruenumKeys

SpecCompare == InitCompare /\ [][NextCompare]_vars

(***************************************************************************)
(* Exhaustiveness: a value that reached the default branch of a switch and *)
(* an optional message, passed to assertExhaustive                         *)
(***************************************************************************)

\* The value that reached assertExhaustive, a string or a value of another
\* type, and the optional msg: not supplied, the empty string, another string.
InitExhaustive ==
    /\ builtins = PristineBuiltins
    /\ enums = <<>>
    /\ \E x \in Inputs \cup {Null, Bool(TRUE), Bool(FALSE), Fn("Object")},
          msg \in ErrMsgs \cup {Str("unreachable"), Str("0")} :
           last = Call("none", 0, x, "", msg, NoConfig, "none", Undefined, "")

CallAssertExhaustive ==
    /\ last.op = "none"
    /\ last' = Lookup("assertExhaustive", 0, last.input, "", last.errMsg,
                      assertExhaustive(last.input, last.errMsg))
    /\ UNCHANGED <<enums, builtins>>

NextExhaustive == CallAssertExhaustive

SpecExhaustive == InitExhaustive /\ [][NextExhaustive]_vars

(***************************************************************************)
(* Validation: an enumeration, and a value parsed by its zodSchema         *)
(***************************************************************************)

\* An enumeration createTruenum built: a parent of the subset universe or a
\* source of the compose universe.
InitZod ==
    /\ builtins = PristineBuiltins
    /\ enums \in {<<e>> : e \in SubsetParents \cup ComposeSources}
    /\ last = Call("none", 0, Undefined, "", Undefined, NoConfig, "none", Undefined, "")

\* buildZodSchema(E).parse(input)
CallParse ==
    /\ last.op = "none"
    /\ \E i \in DOMAIN enums, input \in Inputs :
           /\ last' = Lookup("parse", i, input, "", Undefined,
                             parse(buildZodSchema(enums[i]), input))
           /\ UNCHANGED <<enums, builtins>>

\* buildZodSchema(E).default(d).parse(input) for a key d of E; the call is
\* recorded with d in the place of the optional argument.
CallParseWithDefault ==
    /\ last.op = "none"
    /\ \E i \in DOMAIN enums, input \in Inputs :
           \E d \in Range(enums[i].keys) :
               /\ last' = Lookup("parseWithDefault", i, input, "", Str(d),
                                 parse(default(buildZodSchema(enums[i]), Str(d)), input))
               /\ UNCHANGED <<enums, builtins>>

NextZod ==
    \/ CallParse
    \/ CallParseWithDefault

SpecZod == InitZod /\ [][NextZod]_vars

(***************************************************************************)
(* Ownership: after a construction or a derivation the caller changes an   *)
(* object it holds (a table or a members list it passed in), or tries to   *)
(* change the keys of an enumeration in place                              *)
(***************************************************************************)

\* The closures of a Truenum read config.labels and config.i18n when they
\* are called: a table changed by the caller is changed for every
\* enumeration whose config holds that very object.

\* labels[k] = v on the label table named id.
writeLabel(config, id, k, v) ==
    IF config.labels.def /\ config.labels.id = id
    THEN [config EXCEPT !.labels.own = Set(@, k, v)]
    ELSE config

\* records[l] = v on the locale record named id.
writeTranslation(config, id, l, v) ==
    [config EXCEPT !.i18n.own =
        [k \in DOMAIN @ |-> IF config.i18n.parts[k] = id THEN Set(@[k], l, v) ELSE @[k]]]

\* i18n[k] = { en: v } on the translation table named id: a new record of
\* the caller's takes the place of the one under k.
writeLocales(config, id, k, v) ==
    IF config.i18n.def /\ config.i18n.id = id
    THEN [config EXCEPT
             !.i18n.own = [x \in DOMAIN @ \cup {k} |-> IF x = k THEN [en |-> v] ELSE @[x]],
             !.i18n.parts = [x \in DOMAIN @ \cup {k} |-> IF x = k THEN id \o "." \o k ELSE @[x]]]
    ELSE config

\* The tables and locale records the caller holds: the ones it passed to
\* createTruenum, and the overrides it passed to the last derivation.
ConfigsPassed == {enums[i].config : i \in DOMAIN enums} \cup {last.config}

\* The string the caller writes.
WrittenString == Str("W")

\* A change is made once, after the call that built the last enumeration.
MayChange == last.op \in {"none", "createTruenum", "subsetTruenum", "composeTruenum"}

\* The record of a change: the operation, and the arguments of the call
\* before it, which the caller still holds.
Change(op, self, key, config, kind, msg) ==
    Call(op, self, Str(key), "", Undefined, config, kind, Undefined, msg)

CallerWritesLabel ==
    /\ MayChange
    /\ \E id \in {c.labels.id : c \in ConfigsPassed} \ {Fresh}, k \in {"a", "constructor"} :
           /\ enums' = [i \in DOMAIN enums |->
                           [enums[i] EXCEPT !.config = writeLabel(@, id, k, WrittenString)]]
           /\ last' = Change("writeLabel", 0, k,
                             writeLabel(last.config, id, k, WrittenString), "return", "")
           /\ UNCHANGED builtins

CallerWritesTranslation ==
    /\ MayChange
    /\ \E id \in UNION {{c.i18n.parts[k] : k \in DOMAIN c.i18n.parts} : c \in ConfigsPassed} \ {Fresh},
          l \in {"en", "xx"} :
           /\ enums' = [i \in DOMAIN enums |->
                           [enums[i] EXCEPT !.config = writeTranslation(@, id, l, WrittenString)]]
           /\ last' = Change("writeTranslation", 0, l,
                             writeTranslation(last.config, id, l, WrittenString), "return", "")
           /\ UNCHANGED builtins

CallerWritesLocales ==
    /\ MayChange
    /\ \E id \in {c.i18n.id : c \in ConfigsPassed} \ {Fresh}, k \in {"a", "constructor"} :
           /\ enums' = [i \in DOMAIN enums |->
                           [enums[i] EXCEPT !.config = writeLocales(@, id, k, WrittenString)]]
           /\ last' = Change("writeLocales", 0, k,
                             writeLocales(last.config, id, k, WrittenString), "return", "")
           /\ UNCHANGED builtins

\* The outcome of an operation on an array: its items afterwards, and
\* whether the operation returned or threw.
Modified(items)     == [kind |-> "return", items |-> items, msg |-> ""]
NotModified(items, msg) == [kind |-> "throw", items |-> items, msg |-> msg]

\* arr[0] = v in strict code: a TypeError on a frozen array.
assignFirst(arr, v) ==
    IF arr.frozen THEN NotModified(arr.items, "TypeError: Cannot assign to read only property")
    ELSE Modified(IF arr.items = <<>> THEN <<v>> ELSE [arr.items EXCEPT ![1] = v])

\* arr.push(v): a TypeError on a frozen array.
push(arr, v) ==
    IF arr.frozen THEN NotModified(arr.items, "TypeError: Cannot add property, object is not extensible")
    ELSE Modified(Append(arr.items, v))

\* The order of the key strings by code units.
KeyOrder == <<"", "__proto__", "a", "b", "constructor", "zz">>

rank(k) == CHOOSE n \in DOMAIN KeyOrder : KeyOrder[n] = k

\* The items of an array in ascending order.
sorted(items) ==
    CHOOSE s \in [DOMAIN items -> Range(items)] :
        /\ \A k \in Range(items) :
              Cardinality({i \in DOMAIN items : s[i] = k})
                  = Cardinality({i \in DOMAIN items : items[i] = k})
        /\ \A i, j \in DOMAIN items : i < j => rank(s[i]) <= rank(s[j])

\* arr.sort(): the sorted items are written back, a TypeError on a frozen
\* array.  An engine may return an array of fewer than two items without
\* writing: both outcomes are possible then.
sort(arr) ==
    IF ~arr.frozen THEN {Modified(sorted(arr.items))}
    ELSE {NotModified(arr.items, "TypeError: Cannot assign to read only property")}
             \cup (IF Len(arr.items) < 2 THEN {Modified(arr.items)} ELSE {})

\* The array members the caller passed to the call that built e: another
\* array than e.keys, unless keys was not copied from it.
membersArray(e) ==
    Array(e.config.members, "members", e.keysArray.id = "members" /\ e.keysArray.frozen)

\* The array e.keys.
keysArray(e) == Array(e.keys, e.keysArray.id, e.keysArray.frozen)

\* e after an operation on the caller's members array left it with items.
withMembers(e, items) ==
    [e EXCEPT !.config.members = items,
              !.keys = IF e.keysArray.id = "members" THEN items ELSE @]

\* e after an operation on e.keys left it with items.
withKeys(e, items) ==
    [e EXCEPT !.keys = items,
              !.config.members = IF e.keysArray.id = "members" THEN items ELSE @]

\* The caller holds the members list of every enumeration it built with
\* createTruenum or subsetTruenum; composeTruenum makes the list itself.
HoldsMembers(i) ==
    ~(last.op = "composeTruenum" /\ last.kind = "return" /\ i = Len(enums))

\* members[0] = v or members.push(v) on the list passed for enums[i].
CallerWritesMember ==
    /\ MayChange
    /\ \E i \in DOMAIN enums :
           /\ HoldsMembers(i)
           /\ \E out \in {assignFirst(membersArray(enums[i]), StrangerString),
                          push(membersArray(enums[i]), StrangerString)} :
                  /\ enums' = [enums EXCEPT ![i] = withMembers(@, out.items)]
                  /\ last' = Change("writeMember", i, StrangerString, last.config,
                                    out.kind, out.msg)
           /\ UNCHANGED builtins

\* E.keys[0] = v, E.keys.push(v) or E.keys.sort() on enums[i].
CallerModifiesKeys ==
    /\ MayChange
    /\ \E i \in DOMAIN enums :
           \E out \in {assignFirst(keysArray(enums[i]), StrangerString),
                       push(keysArray(enums[i]), StrangerString)}
                          \cup sort(keysArray(enums[i])) :
               /\ enums' = [enums EXCEPT ![i] = withKeys(@, out.items)]
               /\ last' = Change("modifyKeys", i, StrangerString, last.config,
                                 out.kind, out.msg)
    /\ UNCHANGED builtins

NextOwn ==
    \/ CallCreateTruenum
    \/ CallSubsetTruenum
    \/ CallComposeTruenum
    \/ CallerWritesLabel
    \/ CallerWritesTranslation
    \/ CallerWritesLocales
    \/ CallerWritesMember
    \/ CallerModifiesKeys

SpecOwn == InitDerive /\ [][NextOwn]_vars

(***************************************************************************)
(* Claims                                                                  *)
(***************************************************************************)

\* The enumeration the last call was made on.
Self == enums[last.self]

\* x is a string equal to one of the keys of e.
InKeys(e, x) == x.t = "string" /\ x.v \in Range(e.keys)

\* Some value appears more than once in the list m.
HasDuplicate(m) == \E i, j \in DOMAIN m : i # j /\ m[i] = m[j]

\* The label / translation the config of e supplies as its own entry.
ConfiguredLabel(e, k) ==
    IF e.config.labels.def /\ k \in DOMAIN e.config.labels.own
    THEN e.config.labels.own[k]
    ELSE Undefined

ConfiguredTranslation(e, k, l) ==
    IF /\ e.config.i18n.def
       /\ k \in DOMAIN e.config.i18n.own
       /\ l \in DOMAIN e.config.i18n.own[k]
    THEN e.config.i18n.own[k][l]
    ELSE Undefined

\* C1: for every non-empty, duplicate-free member list createTruenum returns
\* an enumeration whose keys are the members in order and whose values map
\* has exactly the keys as own property names, each mapped to itself.
C1_KeysAndValues ==
    (/\ last.op = "createTruenum"
     /\ last.config.members # <<>>
     /\ ~HasDuplicate(last.config.members))
    => /\ last.kind = "return"
       /\ Len(enums) = 1
       /\ enums[1].keys = last.config.members
       /\ DOMAIN enums[1].values = Range(enums[1].keys)
       /\ \A k \in Range(enums[1].keys) : Get(enums[1].values, k) = Str(k)

\* C2: createTruenum fails with the duplicate-key error for every member
\* list in which some value appears more than once, and returns no
\* enumeration.
C2_DuplicateKeyError ==
    (last.op = "createTruenum" /\ HasDuplicate(last.config.members))
    => /\ last.kind = "throw"
       /\ last.msg = "createTruenum: Duplicate keys found. All enum keys must be unique."
       /\ enums = <<>>

\* A call with a repeated value that is not next to its first occurrence.
C2_Witness ==
    /\ last.op = "createTruenum"
    /\ last.kind = "throw"
    /\ Len(last.config.members) = 3
    /\ last.config.members[1] = last.config.members[3]
    /\ last.config.members[1] # last.config.members[2]

\* C3: createTruenum with an empty member list fails with the
\* empty-key-set error, not the duplicate-key error.
C3_EmptyKeySetError ==
    (last.op = "createTruenum" /\ last.config.members = <<>>)
    => /\ last.kind = "throw"
       /\ last.msg = "createTruenum: members[] cannot be empty"
       /\ enums = <<>>

C3_Witness ==
    /\ last.op = "createTruenum"
    /\ last.config.members = <<>>
    /\ last.kind = "throw"

\* C4: is(input) returns true if and only if input is a string equal to one
\* of keys, and never throws.
C4_IsIffInKeys ==
    last.op = "is"
    => /\ last.kind = "return"
       /\ last.val = Bool(InKeys(Self, last.input))

\* C5: assert, serialize, deserialize, getLabel and getTranslation fail for
\* every input that is not a member of keys and for no input that is.
C5_LookupFailsIffNotInKeys ==
    last.op \in {"assert", "serialize", "deserialize", "getLabel", "getTranslation"}
    => (last.kind = "throw" <=> ~InKeys(Self, last.input))

\* C6: serialize and deserialize return every member unchanged and are
\* mutual inverses on the member set.
C6_SerializeDeserializeIdentity ==
    /\ (last.op \in {"serialize", "deserialize"} /\ InKeys(Self, last.input))
       => (last.kind = "return" /\ last.val = last.input)
    /\ \A i \in DOMAIN enums : \A k \in Range(enums[i].keys) :
          /\ deserialize(enums[i], serialize(enums[i], Str(k)).val) = Return(Str(k))
          /\ serialize(enums[i], deserialize(enums[i], Str(k)).val) = Return(Str(k))

\* C7: whenever getLabel returns for a member k, it returns the label the
\* config supplies for k, and absent when the config supplies none for k.
C7_GetLabelConfigured ==
    (last.op = "getLabel" /\ last.kind = "return")
    => last.val = ConfiguredLabel(Self, last.input.v)

\* C8: whenever getTranslation returns for a member k and a locale l, it
\* returns the string the config supplies for (k, l), and absent for every
\* locale the config does not supply for k.
C8_GetTranslationConfigured ==
    (last.op = "getTranslation" /\ last.kind = "return")
    => last.val = ConfiguredTranslation(Self, last.input.v, last.lang)

\* The description assert gives of an input that is no key of e.
AssertDescription(e, input) ==
    "Value \"" \o String(input) \o "\" is not a valid key of [" \o join(e.keys, ", ") \o "]"

\* C9: assert has no effect when input is a member; otherwise it fails with
\* a text that names the input and the list of keys, prefixed by the message
\* when one is given.
C9_AssertContract ==
    last.op = "assert"
    => IF InKeys(Self, last.input)
       THEN last.kind = "return"
       ELSE /\ last.kind = "throw"
            /\ IF last.errMsg = Undefined
               THEN last.msg = AssertDescription(Self, last.input)
               ELSE last.msg \in {last.errMsg.v \o AssertDescription(Self, last.input),
                                  last.errMsg.v \o " " \o AssertDescription(Self, last.input)}

\* The first entry of chosen that is no key of parent, "" when all are.
RECURSIVE FirstNotInKeys(_, _)
FirstNotInKeys(parent, chosen) ==
    IF chosen = <<>> THEN ""
    ELSE IF Head(chosen) \notin Range(parent.keys) THEN Head(chosen)
    ELSE FirstNotInKeys(parent, Tail(chosen))

\* C10: subsetTruenum fails with the not-in-parent error whenever some entry
\* of chosen is not a member of parent, and the error names the first such
\* entry in the order of chosen.
C10_NotInParentNamesFirst ==
    (/\ last.op = "subsetTruenum"
     /\ \E i \in DOMAIN last.config.members :
            last.config.members[i] \notin Range(Self.keys))
    => /\ last.kind = "throw"
       /\ last.msg = "subsetTruenum: key \"" \o FirstNotInKeys(Self, last.config.members)
                         \o "\" is not a member of parent."

\* The label the overrides of the last derivation define for k as an own
\* entry, and whether they define one.
OverridesLabel(k) ==
    last.config.labels.def /\ k \in DOMAIN last.config.labels.own

\* C11: after every successful subsetTruenum, for every chosen key k the
\* result's getLabel(k) returns the override's label when the override
\* defines k, and otherwise what the parent's getLabel(k) returns.
C11_SubsetLabels ==
    (last.op = "subsetTruenum" /\ last.kind = "return")
    => \A k \in Range(last.config.members) :
          getLabel(enums[2], Str(k)) =
              IF OverridesLabel(k)
              THEN Return(last.config.labels.own[k])
              ELSE getLabel(enums[1], Str(k))

\* Whether the overrides of the last derivation supply locale l for key k.
OverridesTranslation(k, l) ==
    /\ last.config.i18n.def
    /\ k \in DOMAIN last.config.i18n.own
    /\ l \in DOMAIN last.config.i18n.own[k]

\* C12: after every successful subsetTruenum, for every chosen key k and
\* every locale l of the fixed set the result's getTranslation(k, l) returns
\* the override's string when the override supplies (k, l), and otherwise
\* what the parent's getTranslation(k, l) returns.
C12_SubsetTranslations ==
    (last.op = "subsetTruenum" /\ last.kind = "return")
    => \A k \in Range(last.config.members) : \A l \in Range(SUPPORTED_LANGS) :
          getTranslation(enums[2], Str(k), l) =
              IF OverridesTranslation(k, l)
              THEN Return(last.config.i18n.own[k][l])
              ELSE getTranslation(enums[1], Str(k), l)

\* The sources of the last composeTruenum call: a successful call has
\* appended its result to them.
Sources ==
    IF last.kind = "return" THEN SubSeq(enums, 1, Len(enums) - 1) ELSE enums

\* Some key is a member of more than one entry of the list src.
Overlap(src) ==
    \E i, j \in DOMAIN src :
        i # j /\ Range(src[i].keys) \cap Range(src[j].keys) # {}

ComposeDuplicateError == "composeTruenum: Duplicate keys found among the truenums"

\* C13: composeTruenum fails with the duplicate-key error whenever some key
\* is a member of more than one source, and never fails with it (nor with
\* the builder's duplicate-key error) when the sources are pairwise disjoint.
C13_ComposeDuplicateKeys ==
    last.op = "composeTruenum"
    => /\ Overlap(Sources)
          => (last.kind = "throw" /\ last.msg = ComposeDuplicateError)
       /\ ~Overlap(Sources)
          => /\ last.msg # ComposeDuplicateError
             /\ last.msg # "createTruenum: Duplicate keys found. All enum keys must be unique."

\* Two different sources that share a key which is not the first one.
C13_Witness ==
    /\ last.op = "composeTruenum"
    /\ last.kind = "throw"
    /\ Len(enums) = 2
    /\ enums[1].keys = <<"constructor", "a">>
    /\ enums[2].keys = <<"a">>

\* C14: composeTruenum with an empty list of sources fails with the
\* empty-composition error, never with the duplicate-key or the builder's
\* empty-key-set error.
C14_ComposeEmptyList ==
    (last.op = "composeTruenum" /\ Sources = <<>>)
    => /\ last.kind = "throw"
       /\ last.msg = "composeTruenum: cannot compose empty array of truenums"

C14_Witness ==
    /\ last.op = "composeTruenum"
    /\ last.kind = "throw"
    /\ enums = <<>>

\* The number of keys of the first n entries of the list src.
RECURSIVE KeyCount(_, _)
KeyCount(src, n) ==
    IF n = 0 THEN 0 ELSE KeyCount(src, n - 1) + Len(src[n].keys)

\* The enumeration the last derivation returned.
Result == enums[Len(enums)]

\* C15: after every successful composeTruenum the result's keys are the
\* sources' keys, source after source and each source in its own order;
\* their number is the sum of the sources' key counts; and a string is a
\* member of the result if and only if it is a member of some source.
C15_ComposeKeys ==
    (last.op = "composeTruenum" /\ last.kind = "return")
    => /\ Len(Result.keys) = KeyCount(Sources, Len(Sources))
       /\ \A i \in DOMAIN Sources : \A j \in DOMAIN Sources[i].keys :
              Result.keys[KeyCount(Sources, i - 1) + j] = Sources[i].keys[j]
       /\ \A x \in Inputs :
              /\ isEnumKey(Result, x) <=> \E i \in DOMAIN Sources : isEnumKey(Sources[i], x)
              /\ isEnumKey(Result, x) <=> \E i \in DOMAIN Sources : InKeys(Sources[i], x)

\* Two sources of two keys each, composed.
C15_Witness ==
    /\ last.op = "composeTruenum"
    /\ last.kind = "return"
    /\ Len(enums) = 3
    /\ enums[1].keys = <<"b", "">>
    /\ enums[2].keys = <<"constructor", "a">>
    /\ enums[3].keys = <<"b", "", "constructor", "a">>

\* The sources, in input order, that have k as a key and configure a label
\* for it.
LabelSources(k) ==
    {i \in DOMAIN Sources :
        k \in Range(Sources[i].keys) /\ ConfiguredLabel(Sources[i], k) # Undefined}

Earliest(S) == CHOOSE i \in S : \A j \in S : i <= j

\* C16: after every successful composeTruenum, for every key k of the
\* result getLabel(k) returns the override's label when the override
\* defines k, otherwise the label of the earliest source that defines one
\* for k, and absent when no source does.
C16_ComposeLabels ==
    (last.op = "composeTruenum" /\ last.kind = "return")
    => \A k \in Range(Result.keys) :
          getLabel(Result, Str(k)) =
              Return(IF OverridesLabel(k) THEN last.config.labels.own[k]
                     ELSE IF LabelSources(k) = {} THEN Undefined
                     ELSE ConfiguredLabel(Sources[Earliest(LabelSources(k))], k))

\* The sources that have k as a key and configure a string for (k, l).
TranslationSources(k, l) ==
    {i \in DOMAIN Sources :
        k \in Range(Sources[i].keys) /\ ConfiguredTranslation(Sources[i], k, l) # Undefined}

\* C17: after every successful composeTruenum, for every key k of the
\* result and every locale l of the fixed set getTranslation(k, l) returns
\* the override's string when the override supplies (k, l), otherwise the
\* string of the earliest source that defines (k, l), and absent when no
\* source does.
C17_ComposeTranslations ==
    (last.op = "composeTruenum" /\ last.kind = "return")
    => \A k \in Range(Result.keys) : \A l \in Range(SUPPORTED_LANGS) :
          getTranslation(Result, Str(k), l) =
              Return(IF OverridesTranslation(k, l) THEN last.config.i18n.own[k][l]
                     ELSE IF TranslationSources(k, l) = {} THEN Undefined
                     ELSE ConfiguredTranslation(
                              Sources[Earliest(TranslationSources(k, l))], k, l))

\* The locales asked about: the fixed set and the strings of LangStrings.
AllLangs == Range(SUPPORTED_LANGS) \cup LangStrings

\* C18: composing a single source E without overrides succeeds and yields
\* the keys of E in the same order, the same getLabel(k) for every key k and
\* the same getTranslation(k, l) for every key k and every locale l for
\* which E has a translation.
C18_ComposeSingleRoundTrip ==
    (/\ last.op = "composeTruenum"
     /\ Len(Sources) = 1
     /\ ~last.config.labels.def
     /\ ~last.config.i18n.def)
    => /\ last.kind = "return"
       /\ Result.keys = Sources[1].keys
       /\ \A k \in Range(Sources[1].keys) :
              /\ getLabel(Result, Str(k)) = getLabel(Sources[1], Str(k))
              /\ \A l \in AllLangs :
                     getTranslation(Sources[1], Str(k), l).val # Undefined
                     => getTranslation(Result, Str(k), l) = getTranslation(Sources[1], Str(k), l)

\* C19: after every successful subsetTruenum or composeTruenum, a string
\* that a source configures for one of its keys k and a locale l outside the
\* fixed set is returned by that source's getTranslation(k, l), while the
\* derived enumeration's getTranslation(k, l) returns the override's string
\* when the overrides supply (k, l) and absent otherwise.
C19_UnsupportedLocaleNotInherited ==
    (last.op \in {"subsetTruenum", "composeTruenum"} /\ last.kind = "return")
    => \A i \in DOMAIN Sources :
       \A k \in Range(Result.keys) \cap Range(Sources[i].keys) :
       \A l \in AllLangs \ Range(SUPPORTED_LANGS) :
          ConfiguredTranslation(Sources[i], k, l) # Undefined
          => /\ getTranslation(Sources[i], Str(k), l) =
                    Return(ConfiguredTranslation(Sources[i], k, l))
             /\ getTranslation(Result, Str(k), l) =
                    Return(IF OverridesTranslation(k, l)
                           THEN last.config.i18n.own[k][l]
                           ELSE Undefined)

\* C20: subsetTruenum and composeTruenum, whether they return or throw,
\* leave every enumeration the caller passed as it was: its keys are the
\* same, and getLabel and getTranslation give the same outcome for every
\* input and locale after the call as before it.
C20_DerivationLeavesInputsUnchanged ==
    [][last'.op \in {"subsetTruenum", "composeTruenum"}
       => \A i \in DOMAIN enums :
             /\ enums'[i].keys = enums[i].keys
             /\ \A x \in Inputs :
                   /\ getLabel(enums[i], x) = (getLabel(enums[i], x))'
                   /\ \A l \in AllLangs :
                         getTranslation(enums[i], x, l) = (getTranslation(enums[i], x, l))'
      ]_vars


\* a comes before b in the lexicographic order of code-unit sequences: at
\* the first position where they differ a has the smaller unit, or a ends
\* there and b goes on.
LexBefore(a, b) ==
    \E k \in 1..(Len(b)) :
        /\ \A j \in 1..(k - 1) : j \in DOMAIN a /\ a[j] = b[j]
        /\ \/ k = Len(a) + 1
           \/ k \in DOMAIN a /\ a[k] < b[k]

\* C23: compareTruenumKeys is a total order on strings with results in
\* {-1, 0, 1}: compare(a, a) = 0, compare(a, b) = 0 only when a = b,
\* compare(a, b) = -compare(b, a), compare(a, b) <= 0 and compare(b, c) <= 0
\* imply compare(a, c) <= 0, and compare(a, b) = -1 exactly when a is before
\* b in the lexicographic order.
C23_CompareTotalOrder ==
    last.op = "compareTruenumKeys"
        => /\ last.kind = "return"
           /\ \A f \in DOMAIN last.val : last.val[f] \in {-1, 0, 1}
           /\ last.val.aa = 0
           /\ last.val.ab = 0 => last.input[1] = last.input[2]
           /\ last.val.ab = -last.val.ba
           /\ (last.val.ab <= 0 /\ last.val.bc <= 0) => last.val.ac <= 0
           /\ last.val.ab = -1 <=> LexBefore(last.input[1], last.input[2])
           /\ last.val.ab = 1 <=> LexBefore(last.input[2], last.input[1])

\* Three different strings in ascending order, the first a proper prefix of
\* the second, the third shorter than the second.
C23_Witness ==
    /\ last.op = "compareTruenumKeys"
    /\ last.val.ab = -1 /\ last.val.bc = -1 /\ last.val.ac = -1
    /\ Len(last.input[1]) < Len(last.input[2])
    /\ Len(last.input[3]) < Len(last.input[2])
    /\ last.input[1] # <<>>

\* C24: assertExhaustive never returns: it throws an Error whose text is
\* exactly the custom message whenever one is supplied, and otherwise
\* "Non-exhaustive switch reached: " followed by the value.
C24_AssertExhaustiveMessage ==
    last.op = "assertExhaustive"
        => /\ last.kind = "throw"
           /\ last.msg = IF last.errMsg # Undefined THEN last.errMsg.v
                         ELSE "Non-exhaustive switch reached: " \o String(last.input)

\* C22: the validator of an enumeration accepts exactly its keys: parsing a
\* value returns it if and only if is(value) is true and fails otherwise;
\* with a default supplied, parsing an absent input yields the default; and
\* buildZodSchema(E) is E.zodSchema.
C22_ValidatorAcceptsKeys ==
    /\ last.op \in {"parse", "parseWithDefault"}
          => buildZodSchema(Self) = Self.zodSchema
    /\ last.op = "parse"
          => IF is(Self, last.input).val = Bool(TRUE)
             THEN last.kind = "return" /\ last.val = last.input
             ELSE last.kind = "throw"
    /\ (last.op = "parseWithDefault" /\ last.input = Undefined)
          => last.kind = "return" /\ last.val = last.errMsg

\* C26: when every entry of chosen is a member of parent, subsetTruenum
\* fails with the builder's duplicate-key error if chosen repeats an entry,
\* fails with the builder's empty-key-set error if chosen is empty, and
\* otherwise returns an enumeration whose keys are chosen, in chosen's order.
C26_SubsetDelegatesValidation ==
    (/\ last.op = "subsetTruenum"
     /\ \A i \in DOMAIN last.config.members :
            last.config.members[i] \in Range(Self.keys))
    => IF HasDuplicate(last.config.members)
       THEN /\ last.kind = "throw"
            /\ last.msg = "createTruenum: Duplicate keys found. All enum keys must be unique."
       ELSE IF last.config.members = <<>>
       THEN /\ last.kind = "throw"
            /\ last.msg = "createTruenum: members[] cannot be empty"
       ELSE /\ last.kind = "return"
            /\ enums[Len(enums)].keys = last.config.members

\* The keys of the label table and of the translation table e holds.
TableKeys(e) ==
    (IF e.config.labels.def THEN DOMAIN e.config.labels.own ELSE {})
        \cup (IF e.config.i18n.def THEN DOMAIN e.config.i18n.own ELSE {})

\* C27: in every enumeration, built by createTruenum, subsetTruenum or
\* composeTruenum, the label table and the translation table have only
\* members of keys as their keys, also when the config or the overrides
\* name a key that is not a member.
C27_TablesHoldOnlyKeys ==
    \A i \in DOMAIN enums : TableKeys(enums[i]) \subseteq Range(enums[i].keys)

\* The errors of the taxonomy a derivation may fail with: not-in-parent,
\* empty-composition, duplicate-key (of the composer and of the builder) and
\* empty-key-set.
TaxonomyErrors ==
    {"subsetTruenum: key \"" \o k \o "\" is not a member of parent." :
         k \in KeyStrings \cup {StrangerString}}
        \cup {"composeTruenum: cannot compose empty array of truenums",
              "composeTruenum: Duplicate keys found among the truenums",
              "createTruenum: Duplicate keys found. All enum keys must be unique.",
              "createTruenum: members[] cannot be empty"}

\* C28: every call of subsetTruenum or composeTruenum returns an
\* enumeration or fails with an error of the taxonomy, and a call that
\* fails has failed in validation, before any merging: it has written
\* nothing.
C28_DerivationFailsInValidation ==
    (last.op \in {"subsetTruenum", "composeTruenum"} /\ last.kind # "return")
        => /\ last.kind = "throw"
           /\ last.msg \in TaxonomyErrors
           /\ builtins = PristineBuiltins

TableChanges == {"writeLabel", "writeTranslation", "writeLocales"}

\* C21: an enumeration subsetTruenum or composeTruenum returned is an
\* independent copy: no later change the caller makes to the label or
\* translation tables of the parent or the sources, to the override maps or
\* their locale records, or to the chosen list changes the derived
\* enumeration's keys or any result of its getLabel or getTranslation.
C21_DerivedIsIndependentCopy ==
    [][(/\ last.op \in {"subsetTruenum", "composeTruenum"}
        /\ last.kind = "return"
        /\ last'.op \in TableChanges \cup {"writeMember"})
       => /\ Result.keys = (Result.keys)'
          /\ \A x \in Inputs :
                /\ getLabel(Result, x) = (getLabel(Result, x))'
                /\ \A l \in AllLangs :
                      getTranslation(Result, x, l) = (getTranslation(Result, x, l))'
      ]_vars

\* After a composition of two sources the caller has written a label for
\* "a" into the table of the first source: the source returns the string
\* written, the composed enumeration the label it was built with.
C21_Witness ==
    /\ last.op = "writeLabel"
    /\ Len(enums) = 3
    /\ enums[3].keys = enums[1].keys \o enums[2].keys
    /\ last.config.members = enums[3].keys
    /\ getLabel(enums[1], Str("a")) = Return(WrittenString)
    /\ getLabel(enums[3], Str("a")) = Return(Str("L:a"))

\* C29: an enumeration owns its label and translation tables: for every
\* member k and locale l the results of getLabel(k) and getTranslation(k, l)
\* are the same after the caller changes the labels or i18n object it passed
\* in the config as before.
C29_EnumerationOwnsTables ==
    [][last'.op \in TableChanges
       => \A i \in DOMAIN enums : \A k \in Range(enums[i].keys) :
             /\ getLabel(enums[i], Str(k)) = (getLabel(enums[i], Str(k)))'
             /\ \A l \in AllLangs :
                   getTranslation(enums[i], Str(k), l)
                       = (getTranslation(enums[i], Str(k), l))'
      ]_vars

====
